---- MODULE Spec2Model ----
(***************************************************************************)
(* A model of src/src/quote_generator.py: the QuoteGenerator store          *)
(* (load_quotes, get_random_quote, get_quote_by_category,                   *)
(* get_all_categories, format_quote) and the CLI loop of main().            *)
(*                                                                          *)
(* A Python str is a sequence of one-character strings; a quote record (a   *)
(* Python dict) is a function from the keys it holds to strs, so the empty  *)
(* dict {} is the empty function and q.get(k, d) looks at DOMAIN q.         *)
(***************************************************************************)
EXTENDS Integers, Sequences, FiniteSets, TLC

(***************************************************************************)
(* Bounds of the model.                                                     *)
(***************************************************************************)
\* The largest number of records of a quotes list in the data file.
MaxQuotes == 2

(***************************************************************************)
(* Characters and Python's str operations.                                  *)
(***************************************************************************)
\* The character U+2014 (em dash) of the format_quote layout.
EmDash == "U+2014"

UpperChars ==
    << "A", "B", "C", "D", "E", "F", "G", "H", "I", "J", "K", "L", "M",
       "N", "O", "P", "Q", "R", "S", "T", "U", "V", "W", "X", "Y", "Z" >>

LowerChars ==
    << "a", "b", "c", "d", "e", "f", "g", "h", "i", "j", "k", "l", "m",
       "n", "o", "p", "q", "r", "s", "t", "u", "v", "w", "x", "y", "z" >>

\* The characters of the model in ascending code point order:
\* U+000A, U+0020, U+0022, U+002D, U+002E, A-Z, U+005B, U+005D, a-z, U+2014.
CodePointOrder ==
    << "\n", " ", "\"", "-", "." >> \o UpperChars \o << "[", "]" >>
        \o LowerChars \o << EmDash >>

\* The rank of a character by code point (what Python compares strs by).
Ord(ch) == CHOOSE i \in 1..Len(CodePointOrder) : CodePointOrder[i] = ch

\* str.lower() on one character: A-Z map to a-z, everything else is kept.
char_lower(ch) ==
    IF \E i \in 1..Len(UpperChars) : UpperChars[i] = ch
    THEN LowerChars[CHOOSE i \in 1..Len(UpperChars) : UpperChars[i] = ch]
    ELSE ch

\* str.upper() on one character: a-z map to A-Z, everything else is kept.
char_upper(ch) ==
    IF \E i \in 1..Len(LowerChars) : LowerChars[i] = ch
    THEN UpperChars[CHOOSE i \in 1..Len(LowerChars) : LowerChars[i] = ch]
    ELSE ch

\* str.lower(): every character lower-cased.
str_lower(s) == [i \in 1..Len(s) |-> char_lower(s[i])]

\* A mutant of str_capitalize: the first character upper-cased and the rest
\* left as it is.
str_capitalize_keep_rest(s) ==
    [i \in 1..Len(s) |-> IF i = 1 THEN char_upper(s[i]) ELSE s[i]]

\* str.capitalize(): the first character upper-cased and ALL the others
\* lower-cased.
str_capitalize(s) ==
    IF s = << >> THEN << >>
    ELSE << char_upper(Head(s)) >> \o str_lower(Tail(s))

\* s < t for Python strs: lexicographic by code point, a proper prefix first.
RECURSIVE str_less(_, _)
str_less(s, t) ==
    IF t = << >> THEN FALSE
    ELSE IF s = << >> THEN TRUE
    ELSE IF Head(s) # Head(t) THEN Ord(Head(s)) < Ord(Head(t))
    ELSE str_less(Tail(s), Tail(t))

\* sorted(S) of a set of strs: the least element first, then the rest sorted.
RECURSIVE sorted(_)
sorted(S) ==
    IF S = {} THEN << >>
    ELSE LET m == CHOOSE x \in S : \A y \in S \ {x} : str_less(x, y)
         IN  << m >> \o sorted(S \ {m})

\* Whether str t occurs in str s (Python's "t in s").
Contains(s, t) ==
    \E i \in 0..(Len(s) - Len(t)) : SubSeq(s, i + 1, i + Len(t)) = t

\* The elements of a sequence.
Range(seq) == {seq[i] : i \in 1..Len(seq)}

(***************************************************************************)
(* Python dicts and the literals of the code.                               *)
(***************************************************************************)
Keys == {"text", "author", "category"}

\* dict.get(key, default)
dict_get(q, key, default) == IF key \in DOMAIN q THEN q[key] ELSE default

\* The empty dict {}.
EmptyDict == << >>

\* 'unknown' (get_all_categories, format_quote)
UNKNOWN == << "u", "n", "k", "n", "o", "w", "n" >>

\* 'Unknown' (format_quote's default author)
UNKNOWN_AUTHOR == << "U", "n", "k", "n", "o", "w", "n" >>

\* 'Unknown quote' (format_quote's default text)
UNKNOWN_QUOTE ==
    << "U", "n", "k", "n", "o", "w", "n", " ", "q", "u", "o", "t", "e" >>

\* "No quote available."
NO_QUOTE_AVAILABLE ==
    << "N", "o", " ", "q", "u", "o", "t", "e", " ",
       "a", "v", "a", "i", "l", "a", "b", "l", "e", "." >>

(***************************************************************************)
(* Python values: what a method takes and returns.  type is the Python      *)
(* type; quote, list and text hold the value of a dict, a list of strs and  *)
(* a str; exc names the exception the call raised instead of returning.     *)
(***************************************************************************)
Py(type, quote, list, text, exc) ==
    [type |-> type, quote |-> quote, list |-> list, text |-> text, exc |-> exc]

PyNone == Py("NoneType", EmptyDict, << >>, << >>, "")

PyDict(q) == Py("dict", q, << >>, << >>, "")

PyStr(s) == Py("str", EmptyDict, << >>, s, "")

PyList(l) == Py("list", EmptyDict, l, << >>, "")

Raise(exc) == Py("", EmptyDict, << >>, << >>, exc)

\* Python's truth value of a value: None, {} and '' are false.
Truthy(v) ==
    CASE v.type = "NoneType" -> FALSE
      [] v.type = "dict" -> v.quote # EmptyDict
      [] v.type = "str" -> v.text # << >>
      [] v.type = "list" -> v.list # << >>
      [] OTHER -> FALSE

(***************************************************************************)
(* The data file: the inputs of the model.                                  *)
(***************************************************************************)
\* The values of a record's text and author in the data files of the model.
Texts == { << "A" >> }

Authors == { << "B" >> }

\* The categories of the records of the data files: two that differ only in
\* letter case, and the sentinel get_all_categories substitutes.
Categories == { << "a", "b" >>, << "A", "b" >>, UNKNOWN }

\* The values a key may hold, given the categories.
FieldValues(key, cats) ==
    CASE key = "text" -> Texts
      [] key = "author" -> Authors
      [] key = "category" -> cats

\* The quote records over the given categories: any subset of the three keys.
Records(cats) ==
    UNION { { q \in [D -> Texts \cup Authors \cup cats] :
                \A k \in D : q[k] \in FieldValues(k, cats) } :
            D \in SUBSET Keys }

\* The lists of at most n elements of S.
SeqsUpTo(S, n) == UNION { [1..k -> S] : k \in 0..n }

\* The content of the data file.  kind is
\*   "missing"        there is no file
\*   "invalid_json"   the file is not JSON, as "{ invalid json }"
\*   "top_level_list" the JSON document is a list, not an object
\*   "quotes_string"  {"quotes": "ab"}: the value of quotes is a str
\*   "no_quotes_key"  {}: an object without the key quotes
\*   "quotes_list"    {"quotes": [...]}: a list of records
Sources ==
    { [kind |-> k, quotes |-> << >>] :
        k \in { "missing", "invalid_json", "top_level_list",
                "quotes_string", "no_quotes_key" } }
    \cup
    { [kind |-> "quotes_list", quotes |-> qs] :
        qs \in SeqsUpTo(Records(Categories), MaxQuotes) }

\* The str under the key quotes of a "quotes_string" document.
QUOTES_STRING == << "a", "b" >>

\* The value json.load gives data.get('quotes', []): the list of records as
\* a sequence of dicts, the str as Python sees it when it indexes or iterates
\* it, a sequence of one-character strs, and [] when there is no such key.
DataGetQuotes(src) ==
    CASE src.kind = "quotes_list" ->
            [i \in 1..Len(src.quotes) |-> PyDict(src.quotes[i])]
      [] src.kind = "quotes_string" ->
            [i \in 1..Len(QUOTES_STRING) |-> PyStr(<< QUOTES_STRING[i] >>)]
      [] OTHER -> << >>

\* The category arguments get_quote_by_category is called with.
Queries ==
    { << >>, << "a", "b" >>, << "A", "B" >>, << "A", "b" >>, UNKNOWN,
      << "z" >> }

\* The categories of the records format_quote is called with.
FormatCategories ==
    { << "a", "b" >>, << "s", "c", "i", "-", "F", "i" >> }

\* The arguments format_quote is called with: None, a record, or a str.
FormatArgs ==
    { PyNone, PyStr(<< "a" >>) }
    \cup { PyDict(q) : q \in Records(FormatCategories) }

(***************************************************************************)
(* QuoteGenerator.  self.quotes is the sequence `quotes` of Python values:  *)
(* dicts when the document held a list of records.                          *)
(***************************************************************************)
\* A mutant of load_quotes: a missing or unparsable file is taken for an
\* empty collection, with the warning, instead of raising.
load_quotes_swallow_errors(src) ==
    CASE src.kind = "top_level_list" ->
            [exc |-> "AttributeError", quotes |-> << >>, warned |-> FALSE]
      [] OTHER ->
            [exc |-> "", quotes |-> DataGetQuotes(src),
             warned |-> DataGetQuotes(src) = << >>]

\* A mutant of load_quotes: the warning is printed only for an empty list
\* under the key quotes, not when the key is absent.
load_quotes_no_warning_without_key(src) ==
    CASE src.kind = "missing" ->
            [exc |-> "FileNotFoundError", quotes |-> << >>, warned |-> FALSE]
      [] src.kind = "invalid_json" ->
            [exc |-> "JSONDecodeError", quotes |-> << >>, warned |-> FALSE]
      [] src.kind = "top_level_list" ->
            [exc |-> "AttributeError", quotes |-> << >>, warned |-> FALSE]
      [] OTHER ->
            [exc |-> "", quotes |-> DataGetQuotes(src),
             warned |-> src.kind = "quotes_list" /\ src.quotes = << >>]

\* load_quotes: what it raises, or the quotes it stores and whether it prints
\* the warning.
load_quotes(src) ==
    CASE src.kind = "missing" ->
            [exc |-> "FileNotFoundError", quotes |-> << >>, warned |-> FALSE]
      [] src.kind = "invalid_json" ->
            [exc |-> "JSONDecodeError", quotes |-> << >>, warned |-> FALSE]
      [] src.kind = "top_level_list" ->
            \* data.get on a list: not one of the exceptions caught
            [exc |-> "AttributeError", quotes |-> << >>, warned |-> FALSE]
      [] OTHER ->
            [exc |-> "", quotes |-> DataGetQuotes(src),
             warned |-> DataGetQuotes(src) = << >>]

\* A mutant of random_choice: always the first element.
random_choice_first(seq) == { seq[1] }

\* random.choice(seq): the values it may return.
random_choice(seq) == Range(seq)

\* get_random_quote: the values it may return.
get_random_quote(self_quotes) ==
    IF self_quotes = << >> THEN { PyNone } ELSE random_choice(self_quotes)

\* quote.get('category', '').lower() == category.lower()
category_matches(quote, category) ==
    str_lower(dict_get(quote, "category", << >>)) = str_lower(category)

\* get_quote_by_category: the values it may return, or the exception of
\* quote.get on an element that is not a dict.
get_quote_by_category(self_quotes, category) ==
    IF \E i \in 1..Len(self_quotes) : self_quotes[i].type # "dict"
    THEN { Raise("AttributeError") }
    ELSE LET filtered_quotes ==
                SelectSeq(self_quotes,
                          LAMBDA v : category_matches(v.quote, category))
         IN  IF filtered_quotes = << >> THEN { PyNone }
             ELSE random_choice(filtered_quotes)

\* A mutant of get_all_categories: records without a category are skipped.
get_all_categories_skip_absent(self_quotes) ==
    IF \E i \in 1..Len(self_quotes) : self_quotes[i].type # "dict"
    THEN Raise("AttributeError")
    ELSE PyList(sorted({ self_quotes[i].quote["category"] :
                           i \in { j \in 1..Len(self_quotes) :
                                     "category" \in DOMAIN self_quotes[j].quote } }))

\* get_all_categories: the sorted list of the set of categories, or the
\* exception of quote.get on an element that is not a dict.
get_all_categories(self_quotes) ==
    IF \E i \in 1..Len(self_quotes) : self_quotes[i].type # "dict"
    THEN Raise("AttributeError")
    ELSE LET categories ==
                { dict_get(self_quotes[i].quote, "category", UNKNOWN) :
                    i \in 1..Len(self_quotes) }
         IN  PyList(sorted(categories))

\* The f-string of format_quote.
Layout(text, author, category) ==
    << "\n", "\"" >> \o text \o << "\"", "\n", "\n", EmDash, " " >> \o author
        \o << "\n", "[" >> \o str_capitalize(category) \o << "]", "\n" >>

\* format_quote: "if not quote" takes None and the empty dict alike.
format_quote(quote) ==
    IF ~Truthy(quote) THEN PyStr(NO_QUOTE_AVAILABLE)
    ELSE IF quote.type # "dict" THEN Raise("AttributeError")
    ELSE PyStr(Layout(dict_get(quote.quote, "text", UNKNOWN_QUOTE),
                      dict_get(quote.quote, "author", UNKNOWN_AUTHOR),
                      dict_get(quote.quote, "category", UNKNOWN)))

(***************************************************************************)
(* The state.                                                               *)
(***************************************************************************)
VARIABLES
    source,     \* the content of the data file
    quotes,     \* self.quotes
    warned,     \* "Warning: No quotes found in the file." was printed
    pc,         \* a caller of the class: "start", "constructed", "raised"
    ret,        \* the last call: its method, arguments and result
    prev,       \* what the get_random_quote call before the last returned
    main_pc,    \* main(): "start", "menu", "category_prompt", "pause",
                \* "returned", or "traceback": ended by an uncaught exception
    exit_code,  \* the exit status of the process, -1 while it runs
    categories, \* main's local list of categories (choice '2')
    choice,     \* the last input main read
    screen      \* what main printed since it last cleared the screen

storeVars == << source, quotes, warned >>

callerVars == << pc, ret, prev >>

mainVars == << main_pc, exit_code, categories, choice, screen >>

vars == << storeVars, callerVars, mainVars >>

\* No value: before the first call.
NoValue == Raise("")

Call(op, cat, arg, val) == [op |-> op, cat |-> cat, arg |-> arg, val |-> val]

\* What a branch of main prints: the kind of message, the formatted quote,
\* and the lines of a listing, each a name and a number.
Screen(kind, text, lines) == [kind |-> kind, text |-> text, lines |-> lines]

Init ==
    /\ source \in Sources
    /\ pc = "start"
    /\ quotes = << >>
    /\ warned = FALSE
    /\ ret = Call("", << >>, NoValue, NoValue)
    /\ prev = NoValue
    /\ main_pc = "start"
    /\ exit_code = -1
    /\ categories = << >>
    /\ choice = ""
    /\ screen = Screen("", << >>, << >>)

\* QuoteGenerator(quotes_file): self.quotes = [] and then load_quotes().
Construct ==
    /\ pc = "start"
    /\ LET r == load_quotes(source)
       IN  /\ pc' = IF r.exc = "" THEN "constructed" ELSE "raised"
           /\ quotes' = r.quotes
           /\ warned' = r.warned
           /\ ret' = Call("__init__", << >>, NoValue,
                          IF r.exc = "" THEN PyNone ELSE Raise(r.exc))
    /\ UNCHANGED << source, prev, mainVars >>

\* A mutant of GetRandomQuote: the record returned is taken out of the
\* collection, as sampling without replacement would.
GetRandomQuoteAndRemove ==
    /\ pc = "constructed"
    /\ quotes # << >>
    /\ \E i \in 1..Len(quotes) :
          /\ ret' = Call("get_random_quote", << >>, NoValue, quotes[i])
          /\ quotes' = SubSeq(quotes, 1, i - 1)
                          \o SubSeq(quotes, i + 1, Len(quotes))
    /\ prev' = IF ret.op = "get_random_quote" THEN ret.val ELSE NoValue
    /\ UNCHANGED << source, warned, pc, mainVars >>

GetRandomQuote ==
    /\ pc = "constructed"
    /\ \E v \in get_random_quote(quotes) :
          ret' = Call("get_random_quote", << >>, NoValue, v)
    /\ prev' = IF ret.op = "get_random_quote" THEN ret.val ELSE NoValue
    /\ UNCHANGED << storeVars, pc, mainVars >>

GetQuoteByCategory ==
    /\ pc = "constructed"
    /\ \E category \in Queries :
          \E v \in get_quote_by_category(quotes, category) :
             ret' = Call("get_quote_by_category", category, NoValue, v)
    /\ prev' = NoValue
    /\ UNCHANGED << storeVars, pc, mainVars >>

GetAllCategories ==
    /\ pc = "constructed"
    /\ ret' = Call("get_all_categories", << >>, NoValue,
                   get_all_categories(quotes))
    /\ prev' = NoValue
    /\ UNCHANGED << storeVars, pc, mainVars >>

FormatQuote ==
    /\ pc = "constructed"
    /\ \E quote \in FormatArgs :
          ret' = Call("format_quote", << >>, quote, format_quote(quote))
    /\ prev' = NoValue
    /\ UNCHANGED << storeVars, pc, mainVars >>

Next ==
    \/ Construct
    \/ GetRandomQuote
    \/ GetQuoteByCategory
    \/ GetAllCategories
    \/ FormatQuote

Spec == Init /\ [][Next]_vars

(***************************************************************************)
(* main(): the CLI loop.  One action per input main reads, with everything  *)
(* main does up to the next input.                                          *)
(***************************************************************************)
\* main has ended: it returned, or an exception it does not catch ended it.
Ended == main_pc \in { "returned", "traceback" }

\* An exception main has no handler for: traceback, exit status 1.
Uncaught(kind) ==
    /\ main_pc' = "traceback"
    /\ exit_code' = 1
    /\ screen' = Screen(kind, << >>, << >>)

\* Back to "Press Enter to continue...".
Pause(s) ==
    /\ main_pc' = "pause"
    /\ screen' = s
    /\ UNCHANGED exit_code

\* generator = QuoteGenerator(), the welcome lines and the first menu.
MainLoad ==
    /\ main_pc = "start"
    /\ LET r == load_quotes(source)
       IN  /\ quotes' = r.quotes
           /\ warned' = r.warned
           /\ CASE r.exc \in { "FileNotFoundError", "JSONDecodeError" } ->
                      /\ main_pc' = "returned"
                      /\ exit_code' = 1
                      /\ screen' = Screen("Error", << >>, << >>)
                [] r.exc = "AttributeError" -> Uncaught("AttributeError")
                [] OTHER ->
                      /\ main_pc' = "menu"
                      /\ screen' = Screen("Welcome", << >>,
                                          << [name |-> << >>,
                                              count |-> Len(r.quotes)] >>)
                      /\ UNCHANGED exit_code
    /\ choice' = ""
    /\ UNCHANGED << source, callerVars, categories >>

\* choice '1': print(generator.format_quote(generator.get_random_quote()))
Choice1 ==
    /\ main_pc = "menu"
    /\ choice' = "1"
    /\ \E quote \in get_random_quote(quotes) :
          LET formatted == format_quote(quote)
          IN  IF formatted.exc # "" THEN Uncaught(formatted.exc)
              ELSE Pause(Screen("quote", formatted.text, << >>))
    /\ UNCHANGED << storeVars, callerVars, categories >>

\* choice '2', up to "Enter category number or name: ".
Choice2 ==
    /\ main_pc = "menu"
    /\ choice' = "2"
    /\ LET cats == get_all_categories(quotes)
       IN  IF cats.exc # ""
           THEN Uncaught(cats.exc) /\ UNCHANGED categories
           ELSE /\ categories' = cats.list
                /\ main_pc' = "category_prompt"
                /\ screen' = Screen("Available categories", << >>,
                                    [i \in 1..Len(cats.list) |->
                                       [name |-> str_capitalize(cats.list[i]),
                                        count |-> i]])
                /\ UNCHANGED exit_code
    /\ UNCHANGED << storeVars, callerVars >>

\* What the user types at the category prompt: a number, or a name that
\* int() does not parse.
CategoryInputs ==
    { [number |-> TRUE, n |-> n, name |-> << >>] : n \in 0..(MaxQuotes + 1) }
    \cup { [number |-> FALSE, n |-> 0, name |-> c] : c \in Queries }

\* choice '2', from the category the user typed on.
CategoryInput ==
    /\ main_pc = "category_prompt"
    /\ choice' = "category"
    /\ \E cat_input \in CategoryInputs :
          LET in_range == cat_input.number /\ 1 <= cat_input.n
                            /\ cat_input.n <= Len(categories)
              selected_category ==
                  IF ~cat_input.number THEN PyStr(cat_input.name)
                  ELSE IF in_range THEN PyStr(categories[cat_input.n])
                  ELSE PyNone
              invalid ==
                  IF cat_input.number /\ ~in_range
                  THEN Screen("Invalid number", << >>, << >>)
                  ELSE Screen("", << >>, << >>)
          IN  IF ~Truthy(selected_category) THEN Pause(invalid)
              ELSE \E quote \in
                        get_quote_by_category(quotes, selected_category.text) :
                      IF quote.exc # "" THEN Uncaught(quote.exc)
                      ELSE IF ~Truthy(quote)
                      THEN Pause(Screen("No quotes found for category",
                                        selected_category.text, << >>))
                      ELSE Pause(Screen("quote", format_quote(quote).text,
                                        << >>))
    /\ UNCHANGED << storeVars, callerVars, categories >>

\* sum(1 for q in generator.quotes if q.get('category') == cat): get without
\* a default gives None, which equals no category.
count_quotes(self_quotes, cat) ==
    Cardinality({ i \in 1..Len(self_quotes) :
                    /\ "category" \in DOMAIN self_quotes[i].quote
                    /\ self_quotes[i].quote["category"] = cat })

\* choice '3': every category with its count.
Choice3 ==
    /\ main_pc = "menu"
    /\ choice' = "3"
    /\ LET cats == get_all_categories(quotes)
       IN  IF cats.exc # ""
           THEN Uncaught(cats.exc) /\ UNCHANGED categories
           ELSE /\ categories' = cats.list
                /\ Pause(Screen("Available categories", << >>,
                                [i \in 1..Len(cats.list) |->
                                   [name |-> str_capitalize(cats.list[i]),
                                    count |->
                                       count_quotes(quotes, cats.list[i])]]))
    /\ UNCHANGED << storeVars, callerVars >>

\* choice '4': break, return 0.
Choice4 ==
    /\ main_pc = "menu"
    /\ choice' = "4"
    /\ main_pc' = "returned"
    /\ exit_code' = 0
    /\ screen' = Screen("Thanks for using Quote Generator!", << >>, << >>)
    /\ UNCHANGED << storeVars, callerVars, categories >>

\* Any other choice.
InvalidChoice ==
    /\ main_pc = "menu"
    /\ choice' = "other"
    /\ Pause(Screen("Invalid choice", << >>, << >>))
    /\ UNCHANGED << storeVars, callerVars, categories >>

\* "Press Enter to continue...", clear_screen() and the menu again.
PressEnter ==
    /\ main_pc = "pause"
    /\ choice' = "enter"
    /\ main_pc' = "menu"
    /\ screen' = Screen("", << >>, << >>)
    /\ UNCHANGED << storeVars, callerVars, categories, exit_code >>

\* Ctrl-C anywhere inside main's try: "Goodbye!", return 0.
KeyboardInterrupt ==
    /\ ~Ended
    /\ choice' = "interrupt"
    /\ main_pc' = "returned"
    /\ exit_code' = 0
    /\ screen' = Screen("Goodbye!", << >>, << >>)
    /\ UNCHANGED << storeVars, callerVars, categories >>

\* End of input at one of the input() calls: EOFError, which main does not
\* catch.
EndOfInput ==
    /\ main_pc \in { "menu", "category_prompt", "pause" }
    /\ choice' = "eof"
    /\ Uncaught("EOFError")
    /\ UNCHANGED << storeVars, callerVars, categories >>

NextMain ==
    \/ MainLoad
    \/ Choice1
    \/ Choice2
    \/ CategoryInput
    \/ Choice3
    \/ Choice4
    \/ InvalidChoice
    \/ PressEnter
    \/ KeyboardInterrupt
    \/ EndOfInput

SpecMain == Init /\ [][NextMain]_vars

(***************************************************************************)
(* The claims.                                                              *)
(***************************************************************************)
\* The store holds a collection: every element of self.quotes is a record.
Collection ==
    pc = "constructed" /\ \A i \in 1..Len(quotes) : quotes[i].type = "dict"

\* A record's category, the sentinel 'unknown' standing for an absent one.
CategoryOf(q) == IF "category" \in DOMAIN q THEN q["category"] ELSE UNKNOWN

\* Two strs are equal ignoring letter case.
EqualIgnoringCase(s, t) ==
    /\ Len(s) = Len(t)
    /\ \A i \in 1..Len(s) : char_lower(s[i]) = char_lower(t[i])

\* C1: format_quote of the empty record {} returns the layout with every
\* default: the output contains "Unknown quote", "Unknown" and "[Unknown]",
\* and is not the absent-quote message.
C1_EmptyRecordTakesDefaults ==
    (ret.op = "format_quote" /\ ret.arg = PyDict(EmptyDict)) =>
        /\ ret.val.type = "str"
        /\ Contains(ret.val.text, UNKNOWN_QUOTE)
        /\ Contains(ret.val.text, UNKNOWN_AUTHOR)
        /\ Contains(ret.val.text, << "[" >> \o UNKNOWN_AUTHOR \o << "]" >>)
        /\ ret.val.text # NO_QUOTE_AVAILABLE

\* C2: get_quote_by_category(c) returns no result exactly when no record's
\* category equals c ignoring letter case; otherwise it returns a member of
\* the collection whose category equals c ignoring letter case.
C2_ByCategoryMatchesIgnoringCase ==
    (Collection /\ ret.op = "get_quote_by_category") =>
        LET matching == { i \in 1..Len(quotes) :
                            EqualIgnoringCase(CategoryOf(quotes[i].quote),
                                              ret.cat) }
        IN  /\ ret.val = PyNone <=> matching = {}
            /\ matching # {} =>
                  /\ ret.val \in Range(quotes)
                  /\ EqualIgnoringCase(CategoryOf(ret.val.quote), ret.cat)

\* C3: for every category c of get_all_categories(), get_quote_by_category(c)
\* returns a record, never no result, and the record's category is exactly c.
C3_ListedCategoryReturnsItsRecord ==
    (/\ Collection
     /\ ret.op = "get_quote_by_category"
     /\ ret.cat \in Range(get_all_categories(quotes).list)) =>
        /\ ret.val.type = "dict"
        /\ CategoryOf(ret.val.quote) = ret.cat

\* C4: get_all_categories() returns a sequence sorted in ascending order,
\* without duplicates, whose elements are exactly the category values of the
\* records, 'unknown' for a record without one, so that its length is the
\* number of distinct category values.
C4_AllCategoriesSortedDistinctExact ==
    (Collection /\ ret.op = "get_all_categories") =>
        LET l == ret.val.list
            values == { CategoryOf(quotes[i].quote) : i \in 1..Len(quotes) }
        IN  /\ ret.val.type = "list"
            /\ \A i, j \in 1..Len(l) : i < j => str_less(l[i], l[j])
            /\ \A i, j \in 1..Len(l) : i # j => l[i] # l[j]
            /\ Range(l) = values
            /\ Len(l) = Cardinality(values)

\* C4's case: two records, one of them without a category, listed as two
\* categories with 'unknown' last.
C4_Witness ==
    /\ Collection
    /\ ret.op = "get_all_categories"
    /\ Len(quotes) = 2
    /\ "category" \notin DOMAIN quotes[1].quote
    /\ ret.val.list = << << "A", "b" >>, UNKNOWN >>

\* C5: get_random_quote() returns no result exactly when the collection is
\* empty, and otherwise one of its records; whatever was returned before,
\* every record can be returned by the next call.
C5_RandomQuoteIsAnyMember ==
    /\ ret.op = "get_random_quote" =>
          /\ ret.val = PyNone <=> quotes = << >>
          /\ quotes # << >> => ret.val \in Range(quotes)
    /\ pc = "constructed" =>
          \A i \in 1..Len(quotes) :
             ENABLED (GetRandomQuote /\ ret'.val = quotes[i])

\* C5's case: of two different records the one returned before is returned
\* again.
C5_Witness ==
    /\ Collection
    /\ Len(quotes) = 2
    /\ quotes[1] # quotes[2]
    /\ ret.op = "get_random_quote"
    /\ prev = ret.val
    /\ ret.val = quotes[2]

\* C6: constructing the store from a source that does not exist raises the
\* not-found error, and from a source that is not valid JSON the parse error;
\* construction does not complete, so no method of a store is ever called.
C6_MissingOrInvalidSourceRaises ==
    (pc # "start" /\ source.kind \in { "missing", "invalid_json" }) =>
        /\ pc = "raised"
        /\ ret.op = "__init__"
        /\ source.kind = "missing" => ret.val.exc = "FileNotFoundError"
        /\ source.kind = "invalid_json" => ret.val.exc = "JSONDecodeError"

\* C6's case: the constructor has raised the parse error on invalid JSON.
C6_Witness ==
    /\ source.kind = "invalid_json"
    /\ pc = "raised"
    /\ ret.val.exc = "JSONDecodeError"

\* C7: constructing the store from valid JSON without the expected shape (the
\* top level is not a mapping, or the value of quotes is not a sequence of
\* records) raises the parse error: no other error, and no store.
C7_WrongShapeRaisesParseError ==
    (pc # "start" /\ source.kind \in { "top_level_list", "quotes_string" }) =>
        /\ pc = "raised"
        /\ ret.val.exc = "JSONDecodeError"

\* C8: constructing the store from a well-formed source with no records, an
\* empty quotes list or no quotes key, succeeds: the collection is empty and
\* the warning is printed by that construction, not before it.
C8_NoRecordsLoadsEmptyWithWarning ==
    (source.kind = "no_quotes_key"
        \/ (source.kind = "quotes_list" /\ source.quotes = << >>)) =>
        /\ pc = "start" => ~warned
        /\ pc # "start" =>
              /\ pc = "constructed"
              /\ quotes = << >>
              /\ warned
              /\ ret.op = "__init__" => ret.val = PyNone

\* C8's case: the store was constructed from a document without the key.
C8_Witness ==
    /\ source.kind = "no_quotes_key"
    /\ pc = "constructed"
    /\ ret.op = "__init__"
    /\ warned

\* The first character upper-cased, the others as they are.
FirstUpperRestKept(s) ==
    [i \in 1..Len(s) |-> IF i = 1 THEN char_upper(s[i]) ELSE s[i]]

\* The first character upper-cased, the others lower-cased.
FirstUpperRestLower(s) ==
    [i \in 1..Len(s) |-> IF i = 1 THEN char_upper(s[i]) ELSE char_lower(s[i])]

\* The fields format_quote renders, the defaults standing for absent ones.
TextOf(q) == IF "text" \in DOMAIN q THEN q["text"] ELSE UNKNOWN_QUOTE

AuthorOf(q) == IF "author" \in DOMAIN q THEN q["author"] ELSE UNKNOWN_AUTHOR

\* C9, as claimed: for a present record format_quote returns a blank line,
\* the text in double quotes, a blank line, an em-dash and the author, a blank
\* line, and the category in square brackets with its first letter
\* capitalized and the remaining characters unchanged.
C9_LayoutAsClaimed ==
    (/\ ret.op = "format_quote"
     /\ ret.arg.type = "dict"
     /\ DOMAIN ret.arg.quote = Keys) =>
        ret.val.text =
            << "\n" >>
            \o << "\"" >> \o ret.arg.quote["text"] \o << "\"", "\n" >>
            \o << "\n" >>
            \o << EmDash, " " >> \o ret.arg.quote["author"] \o << "\n" >>
            \o << "\n" >>
            \o << "[" >> \o FirstUpperRestKept(ret.arg.quote["category"])
            \o << "]", "\n" >>

\* C9, amended: for a record with at least one field format_quote returns a
\* blank line, the text in double quotes, a blank line, an em-dash, a space
\* and the author, and on the very next line the category in square brackets
\* with its first letter upper-cased and the remaining letters lower-cased;
\* an absent field is rendered by its default.
C9_Layout ==
    (/\ ret.op = "format_quote"
     /\ ret.arg.type = "dict"
     /\ ret.arg.quote # EmptyDict) =>
        /\ ret.val.type = "str"
        /\ ret.val.text =
              << "\n" >>
              \o << "\"" >> \o TextOf(ret.arg.quote) \o << "\"", "\n" >>
              \o << "\n" >>
              \o << EmDash, " " >> \o AuthorOf(ret.arg.quote) \o << "\n" >>
              \o << "[" >> \o FirstUpperRestLower(CategoryOf(ret.arg.quote))
              \o << "]", "\n" >>

\* C9's case: the category "sci-Fi" was rendered "[Sci-fi]".
C9_Witness ==
    /\ ret.op = "format_quote"
    /\ ret.arg.type = "dict"
    /\ DOMAIN ret.arg.quote = Keys
    /\ ret.arg.quote["category"] = << "s", "c", "i", "-", "F", "i" >>
    /\ Contains(ret.val.text, << "[", "S", "c", "i", "-", "f", "i", "]" >>)

\* C10: main ends with exit code 0 on the exit command and on an interrupt,
\* and with exit code 1 when loading fails on a missing file or a malformed
\* document; after any other input the loop is still running.
C10_ExitCodesAndLoopGoesOn ==
    /\ choice \in { "4", "interrupt" } =>
          main_pc = "returned" /\ exit_code = 0
    /\ (/\ main_pc # "start"
        /\ choice = ""
        /\ source.kind \in { "missing", "invalid_json", "top_level_list" }) =>
          Ended /\ exit_code = 1
    /\ choice \in { "1", "2", "3", "other", "category", "enter" } =>
          ~Ended /\ exit_code = -1

\* C11: once the store is constructed, every call of get_random_quote,
\* get_quote_by_category, get_all_categories and format_quote leaves the
\* collection as it was: the same records, with the same field values, in
\* the same order.
C11_QueriesLeaveCollectionUnchanged ==
    [][pc = "constructed" => quotes' = quotes /\ source' = source]_vars

\* C11's case: two calls in a row have returned records of a collection of
\* two records, which is still what was loaded.
C11_Witness ==
    /\ pc = "constructed"
    /\ Len(quotes) = 2
    /\ ret.op = "get_random_quote"
    /\ ret.val.type = "dict"
    /\ prev.type = "dict"
    /\ prev # ret.val
    /\ quotes = DataGetQuotes(source)

\* The sum of the counts of the lines of a listing.
RECURSIVE SumOfCounts(_)
SumOfCounts(lines) ==
    IF lines = << >> THEN 0 ELSE Head(lines).count + SumOfCounts(Tail(lines))

\* C12: in the listing of choice '3' the count printed next to each category
\* is the number of records get_all_categories attributes to it, a record
\* without a category counting under 'unknown'; so every count is at least 1
\* and the counts add up to the number of loaded records.
C12_CountsMatchListedCategories ==
    (choice = "3" /\ main_pc = "pause") =>
        /\ Len(screen.lines) = Len(categories)
        /\ \A i \in 1..Len(screen.lines) :
              /\ screen.lines[i].count =
                    Cardinality({ j \in 1..Len(quotes) :
                                    CategoryOf(quotes[j].quote) = categories[i] })
              /\ screen.lines[i].count >= 1
        /\ SumOfCounts(screen.lines) = Len(quotes)

====
